---------------------------- MODULE Spec2Model ----------------------------
(***************************************************************************)
(* A model of histogrammer (src/histogrammer.cpp): the command line is     *)
(* parsed, the text file is binned into a letter histogram, and the        *)
(* histogram is drawn as rows of text followed by a two-line footer.       *)
(*                                                                         *)
(* Strings are sequences of character codes (ASCII), so that from_chars,   *)
(* to_string, isalpha, tolower and the layout of an output line are        *)
(* computed character by character, as the program computes them.         *)
(* The row bounds are doubles in the program; here they are binary64      *)
(* values with the mantissa kept as a sequence of binary digits, and every *)
(* operation rounds to nearest even, so that a tick such as the one of row *)
(* 1 of 3 at peak 14 is 6, as the program prints it, and not 7.           *)
(***************************************************************************)
EXTENDS Integers, Sequences, FiniteSets

VARIABLES
    args,        \* argv, a sequence of strings                  (line 23)
    fileFound,   \* whether args[1] of the program can be opened (line 41)
    fileText,    \* the content of that file                     (line 46)
    input,       \* the text read from the file                  (line 47)
    rows,        \* number of histogram rows                     (line 50)
    tickStride,  \* a tick every tickStride rows                 (line 51)
    peak,        \* hits in the most populated bin               (line 84)
    hist,        \* unordered_map<char, size_t>                  (line 85)
    pos,         \* index of the next character of input to bin  (line 88)
    digits,      \* width of the tick column                     (line 98)
    rowsLeft,    \* rows still to draw; the next one is r = rowsLeft - 1 (line 101)
    out,         \* the chart lines written to cout              (lines 115-130)
    msg,         \* the message written to cout before an early return
    pc,          \* position in main
    result       \* "running", the exit code, or the fault that ended the run

vars == <<args, fileFound, fileText, input, rows, tickStride, peak, hist, pos,
          digits, rowsLeft, out, msg, pc, result>>

---------------------------------------------------------------------------
(* Bounds of the model.                                                    *)

\* longest text of the exhaustive family of inputs
MaxLen == 3
\* largest row count given with -r in the exhaustive family
MaxRows == 4
\* largest tick stride given with -s in the exhaustive family
MaxStride == 3

---------------------------------------------------------------------------
(* Program constants.                                                      *)

DefaultRows == 10
DefaultTickStride == 3
AlphabetSize == 26

\* std::string::max_size(): a request for more characters throws
\* std::length_error.  The library's value does not fit TLC's integers; any
\* value above every length the program builds here behaves the same.
StringMaxSize == 1000000

---------------------------------------------------------------------------
(* Characters and strings.                                                 *)

Space == 32
Plus  == 43
Minus == 45
Zero  == 48
Nine  == 57
UpperA == 65
UpperZ == 90
LowerA == 97
LowerZ == 122
Bar   == 124
Star  == 42

\* n copies of character c: std::string(n, c)
RECURSIVE Fill(_, _)
Fill(n, c) == IF n <= 0 THEN <<>> ELSE <<c>> \o Fill(n - 1, c)

\* "-r", "-s", "--help"
FlagR == <<Minus, 114>>
FlagS == <<Minus, 115>>
FlagHelp == <<Minus, Minus, 104, 101, 108, 112>>

isdigit(c) == c >= Zero /\ c <= Nine

\* char is signed in the builds modelled: a byte above 127 reaches isalpha
\* as a negative int that is not EOF, which <cctype> leaves undefined.
IsNegativeChar(c) == c > 127

\* isalpha in the "C" locale, for a character it is defined on
isalpha(c) == (c >= UpperA /\ c <= UpperZ) \/ (c >= LowerA /\ c <= LowerZ)

\* a tolower that folds nothing
tolowerUnfolded(c) == c

\* tolower in the "C" locale
tolower(c) == IF c >= UpperA /\ c <= UpperZ THEN c + (LowerA - UpperA) ELSE c

\* vws::iota(0, 26) | vws::transform('a' + i)
alphabet == [i \in 1..AlphabetSize |-> LowerA + (i - 1)]

\* std::to_string of a size_t
RECURSIVE to_string(_)
to_string(n) == IF n < 10 THEN <<Zero + n>>
                ELSE to_string(n \div 10) \o <<Zero + (n % 10)>>


---------------------------------------------------------------------------
(* std::from_chars for size_t, base 10 (line 61).                          *)

\* "18446744073709551615", the largest size_t
SizeMaxDigits == <<49,56,52,52,54,55,52,52,48,55,51,55,48,57,53,53,49,54,49,53>>

\* the longest prefix of s made of digits: the pattern from_chars matches
\* (no sign is accepted for an unsigned type)
RECURSIVE DigitPrefix(_)
DigitPrefix(s) == IF s = <<>> \/ ~isdigit(Head(s)) THEN <<>>
                  ELSE <<Head(s)>> \o DigitPrefix(Tail(s))

RECURSIVE StripZeros(_)
StripZeros(s) == IF s # <<>> /\ Head(s) = Zero THEN StripZeros(Tail(s)) ELSE s

\* a < b for digit strings of one length
DigitsLess(a, b) ==
    \E k \in 1..Len(a) : a[k] < b[k] /\ \A j \in 1..(k - 1) : a[j] = b[j]

\* whether the digit string d (no leading zeros) exceeds the largest size_t
ExceedsSizeMax(d) ==
    \/ Len(d) > Len(SizeMaxDigits)
    \/ Len(d) = Len(SizeMaxDigits) /\ DigitsLess(SizeMaxDigits, d)

RECURSIVE DigitsValue(_)
DigitsValue(d) == IF d = <<>> THEN 0
                  ELSE 10 * DigitsValue(SubSeq(d, 1, Len(d) - 1)) + (d[Len(d)] - Zero)

\* from_chars(s.data(), s.data() + s.size(), setting): the error code and the
\* value left in setting, which is written only when the parse succeeds
from_chars(s, setting) ==
    LET d == DigitPrefix(s)
    IN  IF d = <<>>
          THEN [ec |-> "invalid_argument", value |-> setting]
        ELSE IF ExceedsSizeMax(StripZeros(d))
          THEN [ec |-> "result_out_of_range", value |-> setting]
        ELSE [ec |-> "ok", value |-> DigitsValue(StripZeros(d))]

---------------------------------------------------------------------------
(* parseParam (lines 55-75).                                               *)

\* rng::find(args, param): the index of the first argument equal to param,
\* or Len(a) + 1 for args.end()
find(a, param) ==
    IF \E i \in 1..Len(a) : a[i] = param
      THEN CHOOSE i \in 1..Len(a) : a[i] = param /\ \A j \in 1..(i - 1) : a[j] # param
      ELSE Len(a) + 1

InvalidMsg(param) == IF param = FlagR THEN "Invalid argument for flag -r"
                     ELSE "Invalid argument for flag -s"
MissingMsg(param) == IF param = FlagR THEN "Missing argument for flag -r"
                     ELSE "Missing argument for flag -s"

\* the condition of line 62 on the parsed argument s
Rejected(s, res) == res.ec # "ok" \/ \E k \in 1..Len(s) : ~isdigit(s[k])

\* parseParam(param, setting): what it returns, the value it leaves in
\* setting, and the message it prints
parseParam(param, setting) ==
    LET it == find(args, param)
        next == it + 1
    IN  IF it = Len(args) + 1
          THEN [ok |-> TRUE, setting |-> setting, msg |-> ""]
        ELSE IF next = Len(args) + 1
          THEN [ok |-> FALSE, setting |-> setting, msg |-> MissingMsg(param)]
        ELSE LET s == args[next]
                 res == from_chars(s, setting)
             IN  IF Rejected(s, res)
                   THEN [ok |-> FALSE, setting |-> res.value, msg |-> InvalidMsg(param)]
                   ELSE [ok |-> TRUE, setting |-> res.value, msg |-> ""]

---------------------------------------------------------------------------
(* The inputs of a run: the command line and the file.                     *)

ProgName == <<104>>      \* argv[0]
FileName == <<116>>      \* the path given as argv[1]

\* the characters of the exhaustive texts: 'A', 'a', 'b', 'z', '1' and one
\* byte outside ASCII
Chars == {UpperA, LowerA, LowerA + 1, LowerZ, Zero + 1, 233}

BoundedTexts == UNION {[1..n -> Chars] : n \in 0..MaxLen}

\* "aabbbccccc" and "aabbbcccc"
TextAABBBCCCCC == Fill(2, LowerA) \o Fill(3, LowerA + 1) \o Fill(5, LowerA + 2)
TextAABBBCCCC  == Fill(2, LowerA) \o Fill(3, LowerA + 1) \o Fill(4, LowerA + 2)
\* "123 456"
Text123456 == <<49, 50, 51, Space, 52, 53, 54>>
\* 9, 10 and 100 times 'a'; 11 letters in both cases around a peak of 10
LongTexts == {Fill(9, LowerA), Fill(10, LowerA), Fill(100, LowerA),
              Fill(10, UpperA) \o <<LowerA + 1>>}

Texts == BoundedTexts \cup LongTexts
            \cup {TextAABBBCCCCC, TextAABBBCCCC, Text123456}

SmallTexts == {<<>>, <<LowerA, UpperA + 1, Zero + 1>>}

Base == <<ProgName, FileName>>

\* command lines whose flag values are numbers (a tick stride of 0 is among
\* EdgeArgs)
CoreArgs ==
    {Base}
    \cup {Base \o <<FlagR, to_string(n)>> : n \in 0..MaxRows}
    \cup {Base \o <<FlagS, to_string(m)>> : m \in 1..MaxStride}
    \cup {Base \o <<FlagR, to_string(n), FlagS, to_string(m)>> :
              n \in 0..MaxRows, m \in 1..MaxStride}

\* "", "x", "2x", "-1", "+1", " 1", "002", "18446744073709551616"
OddValues == {<<>>, <<120>>, <<50, 120>>, <<Minus, 49>>, <<Plus, 49>>,
              <<Space, 49>>, <<Zero, Zero, 50>>,
              SubSeq(SizeMaxDigits, 1, Len(SizeMaxDigits) - 1) \o <<54>>}

\* command lines around the edges of the argument handling
EdgeArgs ==
    {<<ProgName>>, <<ProgName, FlagHelp>>, Base \o <<FlagHelp>>,
     Base \o <<FlagR>>, Base \o <<FlagS>>, Base \o <<FlagR, <<50>>, FlagS>>,
     Base \o <<FlagR, FlagS, <<50>>>>, Base \o <<FlagS, <<50>>, FlagR, <<51>>>>,
     Base \o <<FlagR, <<50>>, FlagR, <<120>>>>, <<ProgName, FlagR, <<51>>>>,
     Base \o <<FlagS, <<Zero>>>>, Base \o <<FlagR, <<50>>, FlagS, <<Zero>>>>,
     Base \o <<FlagR, <<Zero>>, FlagS, <<Zero>>>>}
    \cup {Base \o <<FlagR, v>> : v \in OddValues}
    \cup {Base \o <<FlagS, v>> : v \in OddValues}
    \cup {Base \o <<FlagR, <<50>>, FlagS, v>> : v \in OddValues}

---------------------------------------------------------------------------
(* The histogram (lines 84-98).                                            *)

EmptyHist == [c \in {} |-> 0]

\* the value hist[c] yields: the bin, or the 0 a missing bin is created with
Bin(h, c) == IF c \in DOMAIN h THEN h[c] ELSE 0

\* hist after hist[c] = v
WithBin(h, c, v) == [x \in DOMAIN h \cup {c} |-> IF x = c THEN v ELSE h[x]]

\* hist after hist[c] was read for every c of the alphabet (line 120)
WithAlphabet(h) ==
    [x \in DOMAIN h \cup {alphabet[i] : i \in 1..AlphabetSize} |-> Bin(h, x)]

\* peak = bin instead of the larger of the two
MaxTakesFirst(a, b) == a

Max(a, b) == IF a >= b THEN a ELSE b

\* floor(log10(n)) for n >= 1
RECURSIVE FloorLog10(_)
FloorLog10(n) == IF n < 10 THEN 0 ELSE 1 + FloorLog10(n \div 10)

\* the + 1ULL forgotten
DigitsWithoutPlusOne(p) == IF p = 0 THEN {0, 1, StringMaxSize + 1}
                           ELSE {FloorLog10(p)}

\* static_cast<size_t>(floor(log10(peak))) + 1ULL.  log10(0) is -infinity and
\* its conversion to size_t is undefined: builds leave 0 (a saturating
\* conversion), 2^63 (the x86-64 "integer indefinite") or 2^64 - 1 there, so
\* that digits is 1, a value beyond any string size, or 0.
DigitsOutcomes(p) == IF p = 0 THEN {0, 1, StringMaxSize + 1}
                     ELSE {FloorLog10(p) + 1}

---------------------------------------------------------------------------
(* IEEE 754 binary64, round to nearest even, for the values of lines       *)
(* 103-111: a finite double >= 0 is bits * 2^exp, with bits a sequence of  *)
(* MantissaBits binary digits, most significant first and leading digit 1, *)
(* or the empty sequence for 0.  No value here is subnormal or overflows.  *)

MantissaBits == 53

ZeroDouble == [bits |-> <<>>, exp |-> 0]

ZeroBits(n) == [i \in 1..n |-> 0]

\* the binary digits of the integer n, most significant first
RECURSIVE IntBits(_)
IntBits(n) == IF n = 0 THEN <<>> ELSE IntBits(n \div 2) \o <<n % 2>>

\* the integer a sequence of binary digits denotes
RECURSIVE BitsValue(_)
BitsValue(b) == IF b = <<>> THEN 0
                ELSE 2 * BitsValue(SubSeq(b, 1, Len(b) - 1)) + b[Len(b)]

DropLeadingZeroBits(b) ==
    LET ones == {i \in 1..Len(b) : b[i] = 1}
    IN  IF ones = {} THEN <<>>
        ELSE SubSeq(b, CHOOSE i \in ones : \A j \in ones : i <= j, Len(b))

\* b + 1, one digit longer when b is all ones
IncrementBits(b) ==
    LET zeros == {i \in 1..Len(b) : b[i] = 0}
    IN  IF zeros = {} THEN <<1>> \o ZeroBits(Len(b))
        ELSE LET k == CHOOSE i \in zeros : \A j \in zeros : j <= i
             IN  SubSeq(b, 1, k - 1) \o <<1>> \o ZeroBits(Len(b) - k)

\* the double nearest to (b + f) * 2^exp, where b is a binary integer and f
\* a fraction below 1 that is nonzero iff sticky; ties go to the even mantissa
RoundToDouble(b, exp, sticky) ==
    LET n == DropLeadingZeroBits(b)
        len == Len(n)
    IN  IF len = 0 THEN ZeroDouble
        ELSE IF len <= MantissaBits
          THEN [bits |-> n \o ZeroBits(MantissaBits - len),
                exp |-> exp - (MantissaBits - len)]
        ELSE LET keep == SubSeq(n, 1, MantissaBits)
                 guard == n[MantissaBits + 1]
                 rest == sticky \/ \E i \in (MantissaBits + 2)..len : n[i] = 1
                 up == guard = 1 /\ (rest \/ keep[MantissaBits] = 1)
                 e == exp + (len - MantissaBits)
                 inc == IncrementBits(keep)
             IN  IF ~up THEN [bits |-> keep, exp |-> e]
                 ELSE IF Len(inc) > MantissaBits
                   THEN [bits |-> SubSeq(inc, 1, MantissaBits), exp |-> e + 1]
                 ELSE [bits |-> inc, exp |-> e]

\* 2^i mod d, by repeated squaring (d below 2^15)
RECURSIVE PowerOfTwoMod(_, _)
PowerOfTwoMod(i, d) ==
    IF i = 0 THEN 1 % d
    ELSE LET h == PowerOfTwoMod(i \div 2, d)
         IN  (h * h * (IF i % 2 = 1 THEN 2 ELSE 1)) % d

\* the first k binary digits of rem / d after the point, for rem < d: digit
\* i is the integer part of twice what is left after i - 1 digits
FractionBits(rem, d, k) ==
    [i \in 1..k |-> (2 * ((rem * PowerOfTwoMod(i - 1, d)) % d)) \div d]

\* what is left of rem / d after k binary digits
FractionRest(rem, d, k) == (rem * PowerOfTwoMod(k, d)) % d

\* static_cast<double>(a) / b for integers a >= 0 and b >= 1 (b is converted
\* to double, exactly): the quotient is developed far enough past the
\* mantissa for the rounding to see a guard digit and the rest
DoubleDiv(a, b) ==
    LET k == 2 * MantissaBits
    IN  RoundToDouble(IntBits(a \div b) \o FractionBits(a % b, b, k), 0 - k,
                      FractionRest(a % b, b, k) # 0)

\* Long sequences of binary digits are added and multiplied LimbBits digits
\* at a time.
LimbBits == 15

RECURSIVE PowerOfTwo(_)
PowerOfTwo(i) == IF i = 0 THEN 1 ELSE 2 * PowerOfTwo(i - 1)

\* the limbs of a sequence of binary digits, most significant first
ToLimbs(b) ==
    LET n == (Len(b) + LimbBits - 1) \div LimbBits
        padded == ZeroBits(n * LimbBits - Len(b)) \o b
    IN  [j \in 1..n |->
            BitsValue(SubSeq(padded, (j - 1) * LimbBits + 1, j * LimbBits))]

\* the binary digits of a sequence of limbs
FromLimbs(l) ==
    [i \in 1..(Len(l) * LimbBits) |->
        (l[(i - 1) \div LimbBits + 1]
            \div PowerOfTwo(LimbBits - 1 - ((i - 1) % LimbBits))) % 2]

\* the limbs of l * m, from the least significant limb up (m below 2^15)
RECURSIVE TimesLimbs(_, _, _, _)
TimesLimbs(l, i, m, carry) ==
    IF i = 0 THEN <<carry>>
    ELSE LET t == l[i] * m + carry
         IN  TimesLimbs(l, i - 1, m, t \div PowerOfTwo(LimbBits))
                 \o <<t % PowerOfTwo(LimbBits)>>

\* d * m for an integer m >= 0 (m is converted to double, exactly)
DoubleTimes(d, m) ==
    LET l == ToLimbs(d.bits)
    IN  RoundToDouble(FromLimbs(TimesLimbs(l, Len(l), m, 0)), d.exp, FALSE)

\* the limbs of a + b, two sequences of one length
RECURSIVE PlusLimbs(_, _, _, _)
PlusLimbs(a, b, i, carry) ==
    IF i = 0 THEN <<carry>>
    ELSE LET t == a[i] + b[i] + carry
         IN  PlusLimbs(a, b, i - 1, t \div PowerOfTwo(LimbBits))
                 \o <<t % PowerOfTwo(LimbBits)>>

\* x + y
DoublePlus(x, y) ==
    IF x.bits = <<>> THEN y
    ELSE IF y.bits = <<>> THEN x
    ELSE LET e == IF x.exp <= y.exp THEN x.exp ELSE y.exp
             xb == x.bits \o ZeroBits(x.exp - e)
             yb == y.bits \o ZeroBits(y.exp - e)
             len == IF Len(xb) >= Len(yb) THEN Len(xb) ELSE Len(yb)
             xa == ToLimbs(ZeroBits(len - Len(xb)) \o xb)
             ya == ToLimbs(ZeroBits(len - Len(yb)) \o yb)
         IN  RoundToDouble(FromLimbs(PlusLimbs(xa, ya, Len(xa), 0)), e, FALSE)

\* 0.5 * x
DoubleHalf(x) == IF x.bits = <<>> THEN x ELSE [bits |-> x.bits, exp |-> x.exp - 1]

\* static_cast<size_t>(x): the integer part
DoubleTruncate(x) ==
    IF x.bits = <<>> \/ MantissaBits + x.exp <= 0 THEN 0
    ELSE BitsValue(SubSeq(x.bits, 1, MantissaBits + x.exp))

---------------------------------------------------------------------------
(* The arithmetic of a row (lines 103-120).                                *)

\* (static_cast<double>(k) / n) * p
RowBound(k, n, p) == DoubleTimes(DoubleDiv(k, n), p)

\* RowBound, computed once for the row counts and the peaks that the inputs
\* above lead to
TableRows == {DefaultRows} \cup 1..MaxRows
TablePeaks ==
    {Cardinality({k \in 1..Len(t) : tolower(t[k]) = c}) :
        c \in LowerA..LowerZ, t \in Texts \cup SmallTexts}
RowBoundTable ==
    [n \in TableRows |-> [p \in TablePeaks |-> [k \in 0..n |-> RowBound(k, n, p)]]]
RowBoundOf(k, n, p) ==
    IF n \in TableRows /\ p \in TablePeaks /\ k \in 0..n
      THEN RowBoundTable[n][p][k]
      ELSE RowBound(k, n, p)

\* the row's upper bound used as its lower bound
rowFloorIsCeil(r) == RowBoundOf(r + 1, rows, peak)

\* (static_cast<double>(r) / rows) * peak
rowFloor(r) == RowBoundOf(r, rows, peak)
\* (static_cast<double>(r + 1) / rows) * peak
rowCeil(r)  == RowBoundOf(r + 1, rows, peak)

\* the middle rounded to the nearest integer instead of truncated
MidpointRounded(lo, hi) ==
    DoubleTruncate(DoublePlus(DoubleHalf(DoublePlus(lo, hi)), DoubleDiv(1, 2)))

\* static_cast<size_t>(0.5 * (rowFloor + rowCeil))
Midpoint(lo, hi) == DoubleTruncate(DoubleHalf(DoublePlus(lo, hi)))

\* >= where the program compares with >
ExceedsOrEquals(n, q) == n > DoubleTruncate(q) \/ DoubleDiv(n, 1) = q

\* hist[c] > rowFloor, the count n converted to double (exactly): an integer
\* is above q iff it is above the integer part of q
Exceeds(n, q) == n > DoubleTruncate(q)

\* ticks counted from the bottom row instead of the top row
drawTickFromBottom(r) == IF tickStride = 0 THEN BOOLEAN
                         ELSE {r % tickStride = 0}

\* (rows - 1 - r) % tickStride == 0; the remainder by 0 is undefined, and a
\* build that does not trap on it leaves either value
drawTickOutcomes(r) == IF tickStride = 0 THEN BOOLEAN
                       ELSE {(rows - 1 - r) % tickStride = 0}

\* Midpoint of the bounds of row r, computed once like RowBound
MidpointTable ==
    [n \in TableRows |-> [p \in TablePeaks |-> [k \in 0..(n - 1) |->
        Midpoint(RowBoundTable[n][p][k], RowBoundTable[n][p][k + 1])]]]
MidpointOfRow(r) ==
    IF rows \in TableRows /\ peak \in TablePeaks /\ r \in 0..(rows - 1)
      THEN MidpointTable[rows][peak][r]
      ELSE Midpoint(rowFloor(r), rowCeil(r))

tickStr(r, drawTick) ==
    IF drawTick THEN to_string(MidpointOfRow(r)) ELSE <<>>

\* size_t is wider than any string can be long: a difference below zero wraps
\* to a count beyond max_size
SizeModulus == 4 * StringMaxSize
SizeSub(a, b) == (a - b) % SizeModulus

\* the 26 markers of a row whose lower bound is lo (lines 119-121)
Markers(h, lo) ==
    [i \in 1..AlphabetSize |->
        IF Exceeds(Bin(h, alphabet[i]), lo) THEN Star ELSE Space]

Init ==
    /\ \/ args \in CoreArgs /\ fileFound = TRUE /\ fileText \in Texts
       \/ args \in EdgeArgs /\ fileFound \in BOOLEAN /\ fileText \in SmallTexts
    /\ input = <<>>
    /\ rows = DefaultRows
    /\ tickStride = DefaultTickStride
    /\ peak = 0
    /\ hist = EmptyHist
    /\ pos = 1
    /\ digits = 0
    /\ rowsLeft = 0
    /\ out = <<>>
    /\ msg = ""
    /\ pc = "start"
    /\ result = "running"

---------------------------------------------------------------------------
(* main, step by step.                                                     *)

Halt(code, text) ==
    /\ pc' = "halt"
    /\ result' = code
    /\ msg' = text

\* lines 18-21
NoArguments ==
    /\ pc = "start"
    /\ Len(args) = 1
    /\ Halt("exit_0", "Please provide a path to a text file as an argument, --help for more details")
    /\ UNCHANGED <<args, fileFound, fileText, input, rows, tickStride, peak,
                   hist, pos, digits, rowsLeft, out>>

\* lines 25-35
Help ==
    /\ pc = "start"
    /\ Len(args) # 1
    /\ \E i \in 1..Len(args) : args[i] = FlagHelp
    /\ Halt("exit_0", "Usage: histogrammer input_file_path [OPTIONS]")
    /\ UNCHANGED <<args, fileFound, fileText, input, rows, tickStride, peak,
                   hist, pos, digits, rowsLeft, out>>

\* lines 38-44
FileNotFound ==
    /\ pc = "start"
    /\ Len(args) # 1
    /\ ~\E i \in 1..Len(args) : args[i] = FlagHelp
    /\ ~fileFound
    /\ Halt("exit_1", "File not found")
    /\ UNCHANGED <<args, fileFound, fileText, input, rows, tickStride, peak,
                   hist, pos, digits, rowsLeft, out>>

\* lines 38-51
ReadFile ==
    /\ pc = "start"
    /\ Len(args) # 1
    /\ ~\E i \in 1..Len(args) : args[i] = FlagHelp
    /\ fileFound
    /\ input' = fileText
    /\ rows' = DefaultRows
    /\ tickStride' = DefaultTickStride
    /\ pc' = "parse_r"
    /\ UNCHANGED <<args, fileFound, fileText, peak, hist, pos, digits,
                   rowsLeft, out, msg, result>>

\* lines 77-79
ParseRows ==
    /\ pc = "parse_r"
    /\ LET p == parseParam(FlagR, rows)
       IN  /\ rows' = p.setting
           /\ IF p.ok
                THEN pc' = "parse_s" /\ UNCHANGED <<msg, result>>
                ELSE Halt("exit_1", p.msg)
    /\ UNCHANGED <<args, fileFound, fileText, input, tickStride, peak, hist,
                   pos, digits, rowsLeft, out>>

\* lines 80-84
ParseTickStride ==
    /\ pc = "parse_s"
    /\ LET p == parseParam(FlagS, tickStride)
       IN  /\ tickStride' = p.setting
           /\ IF p.ok
                THEN pc' = "count" /\ UNCHANGED <<msg, result>>
                ELSE Halt("exit_1", p.msg)
    /\ UNCHANGED <<args, fileFound, fileText, input, rows, peak, hist, pos,
                   digits, rowsLeft, out>>

\* one turn of the binning loop, lines 88-94
CountChar ==
    /\ pc = "count"
    /\ pos <= Len(input)
    /\ LET c == input[pos]
       IN  \/ /\ ~IsNegativeChar(c)
              /\ isalpha(c)
              /\ LET bin == Bin(hist, tolower(c)) + 1
                 IN  /\ hist' = WithBin(hist, tolower(c), bin)
                     /\ peak' = Max(bin, peak)
              /\ pos' = pos + 1
              /\ UNCHANGED <<pc, result>>
           \/ /\ ~IsNegativeChar(c)
              /\ ~isalpha(c)
              /\ pos' = pos + 1
              /\ UNCHANGED <<hist, peak, pc, result>>
           \* isalpha of a negative char: the C library answers 0 ...
           \/ /\ IsNegativeChar(c)
              /\ pos' = pos + 1
              /\ UNCHANGED <<hist, peak, pc, result>>
           \* ... or a checking library stops the program
           \/ /\ IsNegativeChar(c)
              /\ pc' = "halt"
              /\ result' = "ctype_assertion"
              /\ UNCHANGED <<hist, peak, pos>>
    /\ UNCHANGED <<args, fileFound, fileText, input, rows, tickStride, digits,
                   rowsLeft, out, msg>>

\* line 98, and the row loop is entered
ComputeDigits ==
    /\ pc = "count"
    /\ pos > Len(input)
    /\ digits' \in DigitsOutcomes(peak)
    /\ rowsLeft' = rows
    /\ pc' = "rows"
    /\ UNCHANGED <<args, fileFound, fileText, input, rows, tickStride, peak,
                   hist, pos, out, msg, result>>

\* one turn of the row loop, lines 101-123
DrawRow ==
    /\ pc = "rows"
    /\ rowsLeft > 0
    /\ LET r == rowsLeft - 1
       IN  \E drawTick \in drawTickOutcomes(r) :
             LET lo == rowFloor(r)
                 t == tickStr(r, drawTick)
                 n == SizeSub(digits, Len(t))
             IN  IF n > StringMaxSize - Len(t)
                   THEN \* tickStr.insert throws std::length_error
                        /\ pc' = "halt"
                        /\ result' = "length_error"
                        /\ UNCHANGED <<hist, rowsLeft, out>>
                   ELSE /\ out' = Append(out, Fill(n, Space) \o t \o <<Bar>>
                                               \o Markers(hist, lo))
                        /\ hist' = WithAlphabet(hist)
                        /\ rowsLeft' = rowsLeft - 1
                        /\ UNCHANGED <<pc, result>>
    /\ UNCHANGED <<args, fileFound, fileText, input, rows, tickStride, peak,
                   pos, digits, msg>>

\* line 108 on a build where the remainder by zero traps
DrawRowTraps ==
    /\ pc = "rows"
    /\ rowsLeft > 0
    /\ tickStride = 0
    /\ pc' = "halt"
    /\ result' = "division_by_zero"
    /\ UNCHANGED <<args, fileFound, fileText, input, rows, tickStride, peak,
                   hist, pos, digits, rowsLeft, out, msg>>

\* lines 126-131
DrawFooter ==
    /\ pc = "rows"
    /\ rowsLeft = 0
    /\ IF digits > StringMaxSize
         THEN \* std::string(digits, ' ') throws std::length_error
              /\ result' = "length_error"
              /\ UNCHANGED out
         ELSE /\ out' = out \o
                   << Fill(digits, Space) \o <<Plus>> \o Fill(AlphabetSize, Minus),
                      Fill(digits, Space) \o <<Bar>> \o alphabet >>
              /\ result' = "exit_0"
    /\ pc' = "halt"
    /\ UNCHANGED <<args, fileFound, fileText, input, rows, tickStride, peak,
                   hist, pos, digits, rowsLeft, msg>>

Next ==
    \/ NoArguments
    \/ Help
    \/ FileNotFound
    \/ ReadFile
    \/ ParseRows
    \/ ParseTickStride
    \/ CountChar
    \/ ComputeDigits
    \/ DrawRow
    \/ DrawRowTraps
    \/ DrawFooter

Spec == Init /\ [][Next]_vars

---------------------------------------------------------------------------
(* Reading a run: where main is, and what the chart on cout shows.         *)

\* main passed both parseParam calls: the binning or the drawing runs or ran
CoreEntered == pc \in {"count", "rows"} \/ (pc = "halt" /\ msg = "")

\* digits was computed
AfterDigits == pc = "rows" \/ (pc = "halt" /\ msg = "" /\ result # "ctype_assertion")

\* main returned 0 after the footer
Finished == pc = "halt" /\ msg = "" /\ result = "exit_0"

\* the rows on cout: they are written from r = rows - 1 downwards
DrawnRows == IF AfterDigits THEN rowsLeft..(rows - 1) ELSE {}
RowLine(r) == out[rows - r]

\* the tick column and the 26 markers of a line, by position
TickField(line) == SubSeq(line, 1, digits)
MarkerOf(line, i) == line[digits + 1 + i]
IsFilled(r, i) == MarkerOf(RowLine(r), i) = Star
HasTick(r) == \E k \in 1..digits : RowLine(r)[k] # Space

LetterIndex == 1..AlphabetSize
LetterCount(i) == Bin(hist, LowerA + (i - 1))

\* the characters of input the binning loop has passed
Processed == SubSeq(input, 1, pos - 1)

\* how many characters of s are the lowercase letter l or its uppercase form
Occurrences(l, s) ==
    Cardinality({k \in 1..Len(s) : s[k] = l \/ s[k] = l - (LowerA - UpperA)})

SetMax(S) == IF S = {} THEN 0 ELSE CHOOSE m \in S : \A x \in S : x <= m

\* a text without ASCII letters and without bytes outside ASCII
LetterFree(s) ==
    \A k \in 1..Len(s) :
        /\ s[k] <= 127
        /\ ~(s[k] \in UpperA..UpperZ)
        /\ ~(s[k] \in LowerA..LowerZ)

---------------------------------------------------------------------------
(* The claims.                                                             *)

\* C1: at every point of the binning loop, and so after it, the bin of each
\* lowercase letter holds the number of characters passed that are the letter
\* or its uppercase form; no other bin exists, and peak is the largest of
\* these numbers, so a character that is no letter changes no bin and not peak.
C1_CaseFoldedCounts ==
    /\ \A l \in LowerA..LowerZ : Bin(hist, l) = Occurrences(l, Processed)
    /\ DOMAIN hist \subseteq LowerA..LowerZ
    /\ peak = SetMax({Occurrences(l, Processed) : l \in LowerA..LowerZ})

\* "A1a" was binned: 'A' and 'a' met in one bin, '1' in none
C1_Witness ==
    /\ pc = "rows"
    /\ input = <<UpperA, Zero + 1, LowerA>>
    /\ Bin(hist, LowerA) = 2
    /\ peak = 2

\* C2: peak is the largest bin of the histogram, after every character the
\* binning loop passes (0 while there is no bin).
C2_PeakIsMaxBin == peak = SetMax({hist[c] : c \in DOMAIN hist})

\* inside the loop, with a bin below the peak
C2_Witness ==
    /\ pc = "count"
    /\ pos <= Len(input)
    /\ peak = 2
    /\ \E c \in DOMAIN hist : hist[c] = 1

\* C3: once digits is computed it is the number of decimal digits of peak,
\* and 1 when peak is 0.
C3_DigitWidth ==
    AfterDigits => digits = (IF peak = 0 THEN 1 ELSE Len(to_string(peak)))

\* C4: whenever the binning or the drawing runs, rows >= 1 and
\* tickStride >= 1: a flag value that is no positive integer ended the
\* program before.
C4_CoreOnlyWithPositiveSettings ==
    CoreEntered => rows >= 1 /\ tickStride >= 1

\* C5: for a text without letters peak is 0 and digits is 1, every row drawn
\* is blank in its tick column and in its 26 markers, and the footer is
\* printed with a left padding of width 1.
C5_LetterFreeChartIsBlank ==
    (AfterDigits /\ LetterFree(input) /\ rows >= 1 /\ tickStride >= 1) =>
        /\ peak = 0
        /\ digits = 1
        /\ result # "length_error"
        /\ \A r \in DrawnRows :
              RowLine(r) = <<Space, Bar>> \o Fill(AlphabetSize, Space)
        /\ Finished =>
              /\ out[rows + 1] = <<Space, Plus>> \o Fill(AlphabetSize, Minus)
              /\ out[rows + 2] = <<Space, Bar>> \o alphabet

\* C6: in every row drawn, the marker of a letter is filled iff its count is
\* above rowFloor, the double (r / rows) * peak, and a letter filled in row r
\* is filled in every row drawn below r.
C6_FilledIffAboveRowFloor ==
    \A r \in DrawnRows : \A i \in LetterIndex :
        /\ IsFilled(r, i) <=> LetterCount(i) > DoubleTruncate(rowFloor(r))
        /\ IsFilled(r, i) => \A q \in DrawnRows : q < r => IsFilled(q, i)

\* a finished chart of three rows or more with a bar that ends below the top
C6_Witness ==
    /\ Finished
    /\ rows >= 3
    /\ \E i \in LetterIndex :
          IsFilled(0, i) /\ IsFilled(1, i) /\ ~IsFilled(rows - 1, i)

\* the tick column of row r as the claims describe it: the truncated middle
\* of the row's range, right-aligned, on the rows counted tickStride apart
\* from the top, and blank on the others
ExpectedTickField(r) ==
    IF (rows - 1 - r) % tickStride = 0
      THEN LET t == to_string(MidpointOfRow(r))
           IN  Fill(digits - Len(t), Space) \o t
      ELSE Fill(digits, Space)

\* C7: the rows are on cout from r = rows - 1 down (row r is line rows - r),
\* and for tickStride >= 1 row r carries a tick label, the one of its own
\* range, iff (rows - 1 - r) mod tickStride = 0; the top row always carries
\* one, and rows = 10 with tickStride = 3 puts the ticks on r = 9, 6, 3, 0.
C7_TickRows ==
    tickStride >= 1 =>
        /\ \A r \in DrawnRows :
              /\ HasTick(r) <=> (rows - 1 - r) % tickStride = 0
              /\ TickField(RowLine(r)) = ExpectedTickField(r)
              /\ r = rows - 1 => HasTick(r)
        /\ (Finished /\ rows = 10 /\ tickStride = 3) =>
              {r \in DrawnRows : HasTick(r)} = {9, 6, 3, 0}

\* the default chart of a text with a peak of 100
C7_Witness ==
    /\ Finished
    /\ rows = 10 /\ tickStride = 3 /\ peak = 100
    /\ HasTick(9) /\ ~HasTick(8) /\ HasTick(6) /\ HasTick(0)

\* the run "-r 4 -s 2" on the text, finished
Scenario(text) ==
    /\ args = Base \o <<FlagR, to_string(4), FlagS, to_string(2)>>
    /\ fileText = text
    /\ Finished

\* what scenario 1 says of the finished chart
ScenarioChart ==
    /\ LetterCount(1) = 2 /\ LetterCount(2) = 3 /\ LetterCount(3) = 4
    /\ \A i \in 4..AlphabetSize : LetterCount(i) = 0
    /\ peak = 4 /\ digits = 1
    /\ rowFloor(3) = DoubleDiv(3, 1)
    /\ TickField(RowLine(3)) = to_string(3)
    /\ {i \in LetterIndex : IsFilled(3, i)} = {3}
    /\ {i \in LetterIndex : IsFilled(0, i)} = {1, 2, 3}
    /\ ~HasTick(0)

\* C8 as written: the text "aabbbccccc" with rows = 4 and tickStride = 2
\* gives a = 2, b = 3, c = 4, peak = 4, digits = 1, a top row with
\* rowFloor 3.0, tick 3 and only c filled, and a bottom row with a, b, c
\* filled and no tick.
C8_ScenarioAsWritten == Scenario(TextAABBBCCCCC) => ScenarioChart

\* C8 amended: the text "aabbbcccc" (four c) gives the chart scenario 1
\* describes; the text as written, "aabbbccccc", has five c and gives c = 5,
\* peak = 5, a top row with rowFloor 3.75, tick 4 and only c filled, and the
\* same bottom row.
C8_Scenario ==
    /\ Scenario(TextAABBBCCCC) => ScenarioChart
    /\ Scenario(TextAABBBCCCCC) =>
          /\ LetterCount(1) = 2 /\ LetterCount(2) = 3 /\ LetterCount(3) = 5
          /\ \A i \in 4..AlphabetSize : LetterCount(i) = 0
          /\ peak = 5 /\ digits = 1
          /\ rowFloor(3) = DoubleDiv(15, 4)
          /\ TickField(RowLine(3)) = to_string(4)
          /\ {i \in LetterIndex : IsFilled(3, i)} = {3}
          /\ {i \in LetterIndex : IsFilled(0, i)} = {1, 2, 3}
          /\ ~HasTick(0)

C8_Witness == Scenario(TextAABBBCCCC) /\ peak = 4 /\ Len(out) = 6

\* C9: for peak >= 1 the tick value of every row is below peak and has at
\* most digits decimal digits, so no padding count wraps (no length_error),
\* and every line on cout, rows and footer, is digits + 1 + 26 wide.
C9_TickFitsColumn ==
    (AfterDigits /\ peak >= 1) =>
        /\ result # "length_error"
        /\ \A r \in 0..(rows - 1) :
              LET t == MidpointOfRow(r)
              IN  t < peak /\ Len(to_string(t)) <= digits
        /\ \A k \in 1..Len(out) : Len(out[k]) = digits + 1 + AlphabetSize

\* a finished chart with a three-digit peak: " 95" on the top row
C9_Witness ==
    /\ Finished
    /\ peak = 100 /\ rows = 10 /\ digits = 3
    /\ TickField(RowLine(9)) = <<Space, 57, 53>>
    /\ Len(out) = 12

\* C10: for peak >= 1, in every row drawn a letter whose count is peak is
\* filled and a letter whose count is 0 is not; the top row has a filled
\* marker, and the bottom row fills every letter whose count is >= 1.
C10_BarsSpanTheChart ==
    peak >= 1 =>
        \A r \in DrawnRows :
            /\ \A i \in LetterIndex :
                  /\ LetterCount(i) = peak => IsFilled(r, i)
                  /\ LetterCount(i) = 0 => ~IsFilled(r, i)
                  /\ (r = 0 /\ LetterCount(i) >= 1) => IsFilled(r, i)
            /\ r = rows - 1 => \E i \in LetterIndex : IsFilled(r, i)

\* a finished chart with a full bar, a bar of one and an empty bin
C10_Witness ==
    /\ Finished
    /\ rows >= 2 /\ peak >= 2
    /\ \E i, j, k \in LetterIndex :
          /\ LetterCount(i) = peak /\ IsFilled(rows - 1, i)
          /\ LetterCount(j) = 1 /\ IsFilled(0, j) /\ ~IsFilled(rows - 1, j)
          /\ LetterCount(k) = 0 /\ ~IsFilled(0, k)

=============================================================================
